---- MODULE Spec2Model ----
(***************************************************************************)
(* Model of the realtime session/connection layer of the chat client:      *)
(*   WebSocketService  (frontend/src/services/websocketService.ts)         *)
(*   ChatAPI           (frontend/src/services/api.ts)                      *)
(* The browser's event loop is the scheduler: every action below is one    *)
(* task (a caller's invocation, a socket event, a timeout, an HTTP reply)  *)
(* together with the promise continuations (microtasks) it releases.       *)
(* Objects are values: a service holds its sockets, the ChatAPI holds its  *)
(* service, and the services the ChatAPI no longer refers to, but whose    *)
(* sockets and timeouts still call into them, are kept in `orphans`.       *)
(***************************************************************************)
EXTENDS Integers, Sequences, FiniteSets, TLC

\* ------------------------------------------------------------------ bounds
MaxCalls    == 2      \* ChatAPI calls in flight at once
MaxLoad     == 2      \* calls in flight and orphaned services alive, together, that a
                      \* new call may add to
MaxPolls    == 2      \* timely 100 ms timeouts followed per wait loop; later ones run late

\* ------------------------------------------------------- program constants
maxReconnectAttempts == 5
reconnectDelay       == 1000
maxWaitTime          == 5000
pollInterval         == 100

\* ------------------------------------------------------------------ values
Calls    == 1 .. MaxCalls
Users    == {"u1"}
\* a string field of a frame: "" stands for absent or empty (both falsy)
WsSids   == {"s1", "s2"}
HttpSids == {"", "sid-123"}
\* an inbound frame carries at most one of response and error
Frames   == {f \in [session_id : {""} \cup WsSids, response : {"", "hi"},
                     error : {"", "boom"}] : f.response = "" \/ f.error = ""}

VARIABLES
  webSocketService,  \* ChatAPI.webSocketService: a service (NoService for null)
  orphans,           \* the services the ChatAPI dropped that are still alive
  calls,             \* the ChatAPI calls in flight and their results; a call that
                     \* awaits WebSocketService.sendMessage is that promise and its handler
  cleanups,          \* history: how many of the latest tasks in a row were cleanup()
                     \* calls (capped at 2)
  ui                 \* the state of the chat page (ChatbotInterface and its Sidebar)

vars == <<webSocketService, orphans, calls, cleanups, ui>>

\* a WebSocket: waiter is the call awaiting the connect() promise made with it, sent
\* the calls whose query was written to it and is unanswered
NoSocket  == [readyState |-> "null", promise |-> "none", waiter |-> 0, sent |-> {}]
\* a WebSocketService: ws is this.ws; detached are its sockets that this.ws no longer
\* refers to and that have not closed yet; timers are the delays of its pending
\* reconnect timeouts. History: disconnected records that disconnect() was called on
\* it, retries counts the reconnect timeouts that ran since a socket of it last opened,
\* creator is the createNewSession call in flight that constructed it (0: none, or
\* not followed)
NoService == [live |-> FALSE, user_id |-> "", ws |-> NoSocket, detached |-> <<>>,
              reconnectAttempts |-> 0, messageHandlers |-> <<>>, sessionId |-> "null",
              timers |-> <<>>, disconnected |-> FALSE, retries |-> 0, creator |-> 0]
\* ret: the text the promise settled with; field: the property of the settled value
\* that holds ret, "" when the value is ret itself
\* lost: the socket the call's query was written to has closed
\* got: the session id that arrived, while the call was in its wait loop, on the
\* service the call constructed; sid: the session_id of the frame that settled the call
NoCall    == [op |-> "none", pc |-> "idle", user |-> "", elapsed |-> 0, ret |-> "",
              field |-> "", http |-> "none", lost |-> FALSE, got |-> "none", sid |-> ""]

\* what a handler of the page that awaits call k resumes with: at is the await it
\* stands at, conversationId and sessionId are its local variables
NoAwait   == [at |-> "none", conversationId |-> 0, sessionId |-> ""]
\* the page: conversations holds the id and the session_id of each conversation (0 and
\* "" for null and undefined), awaits the handlers suspended on a ChatAPI call, deleting
\* the conversations whose DELETE request is in flight. History: mounted records that
\* the mount effect ran, ids counts the conversations made so far (the n-th has id n),
\* ended holds the conversations for which a confirmed handleDelete ran to its end
NoUi      == [conversations |-> <<>>, activeConversation |-> 0, inputMessage |-> "",
              isLoading |-> FALSE, awaits |-> [k \in Calls |-> NoAwait],
              deleting |-> {}, mounted |-> FALSE, ids |-> 0, ended |-> {}]

\* the heap as one value, so that a handler and the continuations it releases compose
Cur == [webSocketService |-> webSocketService, orphans |-> orphans, calls |-> calls]

\* service p of the heap: 0 is the ChatAPI's, i > 0 the i-th orphan
Svc(S, p) == IF p = 0 THEN S.webSocketService ELSE S.orphans[p]
Put(S, p, v) ==
  IF p = 0 THEN [S EXCEPT !.webSocketService = v] ELSE [S EXCEPT !.orphans[p] = v]
Places(S) == {p \in 0 .. Len(S.orphans) : Svc(S, p).live}

\* socket q of service v: 0 is v.ws, j > 0 the j-th detached one
Sock(v, q) == IF q = 0 THEN v.ws ELSE v.detached[q]
PutSock(v, q, w) == IF q = 0 THEN [v EXCEPT !.ws = w] ELSE [v EXCEPT !.detached[q] = w]
SockIds(v) == {q \in 0 .. Len(v.detached) : Sock(v, q).readyState # "null"}

IsLive(w) == w.readyState \in {"CONNECTING", "OPEN", "CLOSING"}
LiveSockets(v) == {q \in SockIds(v) : IsLive(Sock(v, q))}

Remove(seq, i) == SubSeq(seq, 1, i - 1) \o SubSeq(seq, i + 1, Len(seq))

\* ------------------------------------------------------ call continuations
Resolve(S, k, v) ==
  [S EXCEPT !.calls[k] = [@ EXCEPT !.pc = "resolved", !.ret = v, !.elapsed = 0]]

Reject(S, k, e) ==
  [S EXCEPT !.calls[k] = [@ EXCEPT !.pc = "rejected", !.ret = e, !.elapsed = 0]]

\* ChatAPI.sendMessage after the await: return { response }
SendReturn(S, k, response) == [Resolve(S, k, response) EXCEPT !.calls[k].field = "response"]

getSessionId(v) == v.sessionId

\* variant of ServiceSendMessage without the readyState test
ServiceSendMessageUnguarded(S, k) ==
  [S EXCEPT !.webSocketService.messageHandlers = Append(@, k),
            !.webSocketService.ws.sent = @ \cup {k},
            !.calls[k].pc = "awaitReply"]

\* WebSocketService.sendMessage on the ChatAPI's service for call k, and the await
\* on its promise
ServiceSendMessage(S, k) ==
  LET v == S.webSocketService
  IN IF v.ws.readyState # "OPEN"
     THEN Reject(S, k, "WebSocket not connected")
     ELSE [S EXCEPT !.webSocketService.messageHandlers = Append(@, k),
                    !.webSocketService.ws.sent = @ \cup {k},
                    !.calls[k].pc = "awaitReply"]

\* variant of PollLoop whose loop test has no deadline
PollLoopNoDeadline(S, k) ==
  LET v == S.webSocketService
  IN IF ~v.live
     THEN Reject(S, k, "TypeError")
     ELSE IF getSessionId(v) = "null"
     THEN [S EXCEPT !.calls[k].pc = "polling"]
     ELSE Resolve(S, k, getSessionId(v))

\* ChatAPI.createNewSession from the while loop on: the loop test, the read of the
\* session id after it and the fallback
PollLoop(S, k) ==
  LET v == S.webSocketService
  IN IF ~v.live
     THEN Reject(S, k, "TypeError")
     ELSE IF getSessionId(v) = "null" /\ S.calls[k].elapsed < maxWaitTime
     THEN [S EXCEPT !.calls[k].pc = "polling"]
     ELSE IF getSessionId(v) # "null"
     THEN Resolve(S, k, getSessionId(v))
     ELSE [S EXCEPT !.calls[k].pc = "http"]

\* what follows `await connect()` in the call that awaits it
AfterConnect(S, k) ==
  CASE S.calls[k].op = "init"   -> Resolve(S, k, "void")
    [] S.calls[k].op = "connect" -> Resolve(S, k, "void")
    [] S.calls[k].op = "create" -> PollLoop(S, k)
    [] S.calls[k].op = "send"   ->
         IF ~S.webSocketService.live
         THEN Reject(S, k, "TypeError")
         ELSE ServiceSendMessage(S, k)

ConnectRejected(S, k) == Reject(S, k, "TransportError")

\* --------------------------------------------------------- WebSocketService
\* new WebSocketService(userId)
Construct(u) == [NoService EXCEPT !.live = TRUE, !.user_id = u]

\* this.ws = w: a socket this.ws referred to lives on, with its handlers, until it closes
SetWs(v, w) ==
  [v EXCEPT !.ws = w,
            !.detached = IF IsLive(v.ws) THEN Append(@, v.ws) ELSE @]

\* variant of Connect without the test for an open socket
ConnectUntested(S, p, k) ==
  LET T == Put(S, p, SetWs(Svc(S, p), [readyState |-> "CONNECTING", promise |-> "pending",
                                       waiter |-> k, sent |-> {}]))
  IN IF k = 0 THEN T ELSE [T EXCEPT !.calls[k].pc = "connecting"]

\* connect() on service p, its promise awaited by call k (k = 0: by nobody, as in the
\* reconnect timeout)
Connect(S, p, k) ==
  LET v == Svc(S, p)
  IN IF v.ws.readyState = "OPEN"
     THEN IF k = 0 THEN S ELSE AfterConnect(S, k)
     ELSE LET T == Put(S, p, SetWs(v, [readyState |-> "CONNECTING", promise |-> "pending",
                                      waiter |-> k, sent |-> {}]))
          IN IF k = 0 THEN T ELSE [T EXCEPT !.calls[k].pc = "connecting"]

\* the call awaiting the connect() promise of socket q of service p resumes
Settle(S, p, q, ok) ==
  LET v == Svc(S, p)
      k == Sock(v, q).waiter
      T == Put(S, p, PutSock(v, q, [Sock(v, q) EXCEPT
                                      !.promise = IF ok THEN "resolved" ELSE "rejected",
                                      !.waiter = 0]))
  IN IF k = 0 THEN T
     ELSE IF ok THEN AfterConnect(T, k) ELSE ConnectRejected(T, k)

\* variant of OnOpen that keeps the reconnect counter
OnOpenKeepsCounter(S, p, q) == Settle(S, p, q, TRUE)

\* ws.onopen
OnOpen(S, p, q) ==
  Settle(Put(S, p, [Svc(S, p) EXCEPT !.reconnectAttempts = 0]), p, q, TRUE)

\* removeMessageHandler(handler), for the handler of call k
removeMessageHandler(v, k) ==
  [v EXCEPT !.messageHandlers = SelectSeq(@, LAMBDA h : h # k),
            !.ws.sent = @ \ {k},
            !.detached = [j \in DOMAIN @ |-> [@[j] EXCEPT !.sent = @ \ {k}]]]

\* variant of MessageHandler that resolves the promise on an error frame too
MessageHandlerResolvesError(S, p, k, f) ==
  IF f.response # "" THEN SendReturn(Put(S, p, removeMessageHandler(Svc(S, p), k)), k, f.response)
  ELSE IF f.error # "" THEN SendReturn(Put(S, p, removeMessageHandler(Svc(S, p), k)), k, f.error)
  ELSE S

\* the messageHandler closure of sendMessage, for the promise of call k
MessageHandler(S, p, k, f) ==
  LET T == [Put(S, p, removeMessageHandler(Svc(S, p), k)) EXCEPT !.calls[k].sid = f.session_id]
  IN IF f.response # "" THEN SendReturn(T, k, f.response)
     ELSE IF f.error # "" THEN Reject(T, k, f.error)
     ELSE S

\* this.messageHandlers.forEach(handler => handler(message)), over the array as it
\* was when forEach began
RECURSIVE ForEach(_, _, _, _)
ForEach(S, p, hs, f) ==
  IF hs = <<>> THEN S
  ELSE ForEach(MessageHandler(S, p, Head(hs), f), p, Tail(hs), f)

\* variant of OnMessage that looks at session_id only in a frame that settles nothing
OnMessageReplyFirst(S, p, f) ==
  LET T == IF f.session_id # "" /\ p = 0 /\ f.response = "" /\ f.error = ""
           THEN Put(S, p, [Svc(S, p) EXCEPT !.sessionId = f.session_id])
           ELSE S
  IN ForEach(T, p, Svc(T, p).messageHandlers, f)

\* variant of OnMessage whose session id is one field shared by every service
OnMessageSharedId(S, p, f) ==
  LET T == IF f.session_id # "" /\ S.webSocketService.live
           THEN Put(S, 0, [Svc(S, 0) EXCEPT !.sessionId = f.session_id])
           ELSE S
  IN ForEach(T, p, Svc(T, p).messageHandlers, f)

\* ws.onmessage
OnMessage(S, p, f) ==
  LET c == Svc(S, p).creator
      R == IF f.session_id # "" /\ c # 0 /\ S.calls[c].pc = "polling"
           THEN [S EXCEPT !.calls[c].got = f.session_id]
           ELSE S
      T == IF f.session_id # "" /\ p = 0
           THEN Put(R, p, [Svc(R, p) EXCEPT !.sessionId = f.session_id])
           ELSE R
  IN ForEach(T, p, Svc(T, p).messageHandlers, f)

\* variant of attemptReconnect whose exponent is the attempt number after the increment
attemptReconnectLateExponent(v) ==
  IF v.reconnectAttempts < maxReconnectAttempts
  THEN [v EXCEPT !.timers = Append(@, reconnectDelay * 2 ^ (v.reconnectAttempts + 1))] ELSE v

\* variant of attemptReconnect that compares with <= and so schedules a sixth attempt
attemptReconnectInclusive(v) ==
  IF v.reconnectAttempts <= maxReconnectAttempts
  THEN [v EXCEPT !.timers = Append(@, reconnectDelay * 2 ^ v.reconnectAttempts)] ELSE v

\* attemptReconnect(): the timeout it sets, if any
attemptReconnect(v) ==
  IF v.reconnectAttempts < maxReconnectAttempts
  THEN [v EXCEPT !.timers = Append(@, reconnectDelay * 2 ^ v.reconnectAttempts)]
  ELSE v

\* variant of OnClose that calls attemptReconnect twice
OnCloseReconnectsTwice(S, p) ==
  Put(S, p, attemptReconnect(attemptReconnect(Svc(S, p))))

\* ws.onclose
OnClose(S, p) == Put(S, p, attemptReconnect(Svc(S, p)))

\* variant of OnError that schedules a reconnect as onclose does
OnErrorReconnects(S, p, q) ==
  OnClose(IF Sock(Svc(S, p), q).promise = "pending" THEN Settle(S, p, q, FALSE) ELSE S, p)

\* variant of OnError that leaves the promise as it is
OnErrorIgnored(S, p, q) == S

\* ws.onerror: reject(error), which only a pending promise heeds
OnError(S, p, q) ==
  IF Sock(Svc(S, p), q).promise = "pending" THEN Settle(S, p, q, FALSE) ELSE S

\* the callback of the timeout set by attemptReconnect()
ReconnectTimeout(S, p) ==
  Connect(Put(S, p, [Svc(S, p) EXCEPT !.reconnectAttempts = @ + 1]), p, 0)

\* WebSocket.close(): a socket that has not closed yet is CLOSING from now on
Close(w) == IF IsLive(w) THEN [w EXCEPT !.readyState = "CLOSING"] ELSE w

\* disconnect()
disconnect(v) ==
  IF v.ws.readyState # "null"
  THEN [SetWs([v EXCEPT !.ws = Close(@)], NoSocket) EXCEPT !.disconnected = TRUE]
  ELSE [v EXCEPT !.disconnected = TRUE]

\* ------------------------------------------------------------------ ChatAPI
\* something still calls into service v: a socket yet to fire its events, a timeout
Alive(v) == v.live /\ (LiveSockets(v) # {} \/ v.timers # <<>>)

\* this.webSocketService = w: the service it referred to lives on while it is Alive,
\* but nothing reads its session id or its user any more
SetService(S, w) ==
  [S EXCEPT !.webSocketService = w,
            !.orphans = IF Alive(S.webSocketService)
                        THEN Append(@, [S.webSocketService EXCEPT !.sessionId = "null",
                                                                  !.user_id = ""])
                        ELSE @]

\* variant of InitializeWebSocket that connects the service it finds closed
InitializeWebSocketReconnects(S, k, u) ==
  IF ~S.webSocketService.live \/ getSessionId(S.webSocketService) = "null"
  THEN Connect(SetService(S, Construct(u)), 0, k)
  ELSE IF S.webSocketService.ws.readyState = "CLOSED" THEN Connect(S, 0, k)
  ELSE AfterConnect(S, k)

\* initializeWebSocket(userId) up to its await, for call k (the call itself, or the
\* sendMessage call that awaits it)
InitializeWebSocket(S, k, u) ==
  IF ~S.webSocketService.live \/ getSessionId(S.webSocketService) = "null"
  THEN Connect(SetService(S, Construct(u)), 0, k)
  ELSE AfterConnect(S, k)

\* createNewSession(userId) up to its first await
CreateNewSession(S, k, u) == Connect(SetService(S, Construct(u)), 0, k)

\* variant of SendMessage that also initializes when the socket is not open
SendMessageReconnects(S, k, u) ==
  IF ~S.webSocketService.live \/ S.webSocketService.ws.readyState # "OPEN"
  THEN InitializeWebSocket(S, k, u)
  ELSE ServiceSendMessage(S, k)

\* sendMessage(message, userId) up to its first await
SendMessage(S, k, u) ==
  IF ~S.webSocketService.live
  THEN InitializeWebSocket(S, k, u)
  ELSE ServiceSendMessage(S, k)

\* getSessionInfo().sessionId
GetSessionInfo(S) ==
  IF S.webSocketService.live THEN getSessionId(S.webSocketService) ELSE "null"

\* variant of Cleanup that disconnects the service and keeps the reference to it
CleanupKeepsService(S) ==
  IF S.webSocketService.live THEN Put(S, 0, disconnect(S.webSocketService)) ELSE S

\* cleanup()
Cleanup(S) ==
  IF S.webSocketService.live
  THEN SetService(Put(S, 0, disconnect(S.webSocketService)), NoService)
  ELSE S

\* ------------------------------------------------------- unreachable objects
\* sockets that have closed and that no ws refers to, and services that nothing calls
\* into any more, are gone
Collect(S) ==
  LET tidy(v) == [v EXCEPT !.detached = SelectSeq(@, IsLive)]
  IN [S EXCEPT !.webSocketService = tidy(@),
               !.orphans = SelectSeq([i \in DOMAIN @ |-> tidy(@[i])], Alive)]

Commit(S) ==
  LET T == Collect(S)
  IN /\ webSocketService' = T.webSocketService
     /\ orphans' = T.orphans
     /\ calls' = T.calls

\* the slot of the next call
FreeSlot(k) == calls[k].op = "none" /\ \A j \in Calls : j < k => calls[j].op # "none"

\* a new call in slot k
Enter(S, k, op, u) ==
  [S EXCEPT !.calls[k] = [NoCall EXCEPT !.op = op, !.user = u]]

\* the call replaces this.webSocketService
Replaces(op) ==
  \/ op = "create"
  \/ op = "init" /\ (~webSocketService.live \/ getSessionId(webSocketService) = "null")
  \/ op = "send" /\ ~webSocketService.live

\* room for one more call, and for the service it would orphan
CanCall(op) ==
  Cardinality({k \in Calls : calls[k].op # "none"}) + Len(orphans)
    + (IF Replaces(op) /\ Alive(webSocketService) THEN 1 ELSE 0) < MaxLoad

\* a settled call's caller resumes (a microtask) before the next task runs
NoneSettled == \A k \in Calls : calls[k].pc \notin {"resolved", "rejected"}

\* call k has settled and its caller has not resumed yet
Settled(k) == calls[k].pc \in {"resolved", "rejected"}

\* ------------------------------------------------------------------ actions
Init ==
  /\ webSocketService = NoService
  /\ orphans = <<>>
  /\ calls = [k \in Calls |-> NoCall]
  /\ cleanups = 0
  /\ ui = NoUi

CallInitializeWebSocket(k, u) ==
  /\ NoneSettled
  /\ FreeSlot(k)
  /\ CanCall("init")
  /\ Commit(InitializeWebSocket(Enter(Cur, k, "init", u), k, u))
  /\ cleanups' = 0
  /\ UNCHANGED ui

CallCreateNewSession(k, u) ==
  /\ NoneSettled
  /\ FreeSlot(k)
  /\ CanCall("create")
  /\ Commit(CreateNewSession(Enter(Cur, k, "create", u), k, u))
  /\ cleanups' = 0
  /\ UNCHANGED ui

CallSendMessage(k, u) ==
  /\ NoneSettled
  /\ FreeSlot(k)
  /\ CanCall("send")
  /\ Commit(SendMessage(Enter(Cur, k, "send", u), k, u))
  /\ cleanups' = 0
  /\ UNCHANGED ui

CallCleanup ==
  /\ NoneSettled
  /\ Commit(Cleanup(Cur))
  /\ cleanups' = IF cleanups < 2 THEN cleanups + 1 ELSE cleanups
  /\ UNCHANGED ui

\* call k is over: the services it constructed have no call in flight behind them
Forget(S, k) ==
  LET drop(v) == IF v.creator = k THEN [v EXCEPT !.creator = 0] ELSE v
  IN [S EXCEPT !.webSocketService = drop(@),
               !.orphans = [i \in DOMAIN @ |-> drop(@[i])],
               !.calls[k] = NoCall]

\* the caller has taken the call's result
Return(k) ==
  /\ calls[k].pc \in {"resolved", "rejected"}
  /\ Commit(Forget(Cur, k))
  /\ cleanups' = 0
  /\ UNCHANGED ui

\* socket q of service p, there and in readyState rs
At(p, q, rs) ==
  /\ p \in Places(Cur)
  /\ q \in SockIds(Svc(Cur, p))
  /\ Sock(Svc(Cur, p), q).readyState \in rs

SetReadyState(S, p, q, rs) ==
  Put(S, p, PutSock(Svc(S, p), q, [Sock(Svc(S, p), q) EXCEPT !.readyState = rs]))

\* the handshake succeeded: readyState OPEN, then the open event
SocketOpen(p, q) ==
  /\ NoneSettled
  /\ At(p, q, {"CONNECTING"})
  /\ Commit(OnOpen(Put(SetReadyState(Cur, p, q, "OPEN"), p,
                       [Svc(SetReadyState(Cur, p, q, "OPEN"), p) EXCEPT !.retries = 0]),
                   p, q))
  /\ cleanups' = 0
  /\ UNCHANGED ui

\* a frame arrived on an open socket
SocketMessage(p, q, f) ==
  /\ NoneSettled
  /\ At(p, q, {"OPEN"})
  /\ Commit(OnMessage(Cur, p, f))
  /\ cleanups' = 0
  /\ UNCHANGED ui

\* the socket is gone: the queries written to it and unanswered have lost their transport
Closed(S, p, q) ==
  LET w == Sock(Svc(S, p), q)
      T == Put(S, p, PutSock(Svc(S, p), q, [w EXCEPT !.readyState = "CLOSED", !.sent = {}]))
  IN [T EXCEPT !.calls = [k \in Calls |->
                            IF k \in w.sent THEN [@[k] EXCEPT !.lost = TRUE] ELSE @[k]]]

\* the connection failed (handshake refused, network error, close() before the
\* handshake ended): readyState CLOSED, then the error event, then the close event
SocketFail(p, q) ==
  /\ NoneSettled
  /\ At(p, q, {"CONNECTING", "OPEN", "CLOSING"})
  /\ Commit(OnClose(OnError(Closed(Cur, p, q), p, q), p))
  /\ cleanups' = 0
  /\ UNCHANGED ui

\* an established connection closed cleanly (by the server, or the closing handshake
\* that close() began has ended): readyState CLOSED, then the close event
SocketClose(p, q) ==
  /\ NoneSettled
  /\ At(p, q, {"OPEN", "CLOSING"})
  /\ Sock(Svc(Cur, p), q).promise = "resolved"
  /\ Commit(OnClose(Closed(Cur, p, q), p))
  /\ cleanups' = 0
  /\ UNCHANGED ui

\* the i-th reconnect timeout of service p fires
TimerFire(p, i) ==
  /\ NoneSettled
  /\ p \in Places(Cur)
  /\ i \in DOMAIN Svc(Cur, p).timers
  /\ Commit(ReconnectTimeout(
       Put(Cur, p, [Svc(Cur, p) EXCEPT !.timers = Remove(@, i),
                                       !.retries = @ + 1]), p))
  /\ cleanups' = 0
  /\ UNCHANGED ui

\* what Date.now() - startTime has grown by when the 100 ms timeout of the wait loop
\* runs: the interval, or (a late timeout) the whole deadline
PollDelays == {pollInterval, maxWaitTime}

PollTick(k, d) ==
  /\ NoneSettled
  /\ calls[k].pc = "polling"
  /\ d = pollInterval => calls[k].elapsed < MaxPolls * pollInterval
  /\ Commit(PollLoop([Cur EXCEPT !.calls[k].elapsed =
                        IF @ + d < maxWaitTime THEN @ + d ELSE maxWaitTime], k))
  /\ cleanups' = 0
  /\ UNCHANGED ui

\* variant of HttpReply that returns response.data.session_id untested
HttpReplyUntested(k, sid) ==
  /\ NoneSettled
  /\ calls[k].pc = "http"
  /\ Commit(Resolve([Cur EXCEPT !.calls[k].http = sid], k, sid))
  /\ cleanups' = 0
  /\ UNCHANGED ui

\* variant of HttpReply that returns the streamed session id, not the one in the reply
HttpReplyStreamedId(k, sid) ==
  /\ NoneSettled
  /\ calls[k].pc = "http"
  /\ Commit(IF sid # "" THEN Resolve([Cur EXCEPT !.calls[k].http = sid], k, GetSessionInfo(Cur))
            ELSE Reject([Cur EXCEPT !.calls[k].http = sid], k,
                        "No session ID received from HTTP endpoint"))
  /\ cleanups' = 0
  /\ UNCHANGED ui

\* axios.post('/create_session') answered with session_id sid
HttpReply(k, sid) ==
  /\ NoneSettled
  /\ calls[k].pc = "http"
  /\ Commit(IF sid # ""
            THEN Resolve([Cur EXCEPT !.calls[k].http = sid], k, sid)
            ELSE Reject([Cur EXCEPT !.calls[k].http = sid], k,
                        "No session ID received from HTTP endpoint"))
  /\ cleanups' = 0
  /\ UNCHANGED ui

\* axios.post threw
HttpFail(k) ==
  /\ NoneSettled
  /\ calls[k].pc = "http"
  /\ Commit(Reject([Cur EXCEPT !.calls[k].http = "failed"], k, "HttpError"))
  /\ cleanups' = 0
  /\ UNCHANGED ui

Slots == 0 .. MaxLoad

Next ==
  \/ \E k \in Calls, u \in Users : CallInitializeWebSocket(k, u)
  \/ \E k \in Calls, u \in Users : CallCreateNewSession(k, u)
  \/ \E k \in Calls, u \in Users : CallSendMessage(k, u)
  \/ CallCleanup
  \/ \E k \in Calls : Return(k)
  \/ \E p \in Slots, q \in Slots : SocketOpen(p, q)
  \/ \E p \in Slots, q \in Slots, f \in Frames : SocketMessage(p, q, f)
  \/ \E p \in Slots, q \in Slots : SocketFail(p, q)
  \/ \E p \in Slots, q \in Slots : SocketClose(p, q)
  \/ \E p \in Slots, i \in Slots : TimerFire(p, i)
  \/ \E k \in Calls, d \in PollDelays : PollTick(k, d)
  \/ \E k \in Calls, sid \in HttpSids : HttpReply(k, sid)
  \/ \E k \in Calls : HttpFail(k)

Spec == Init /\ [][Next]_vars

\* ------------------------------------------------------------- scheduling
\* the socket whose connect() promise call k awaits opens or fails
ConnectSettles(k) ==
  \E p \in Slots, q \in Slots :
    /\ At(p, q, {"CONNECTING", "CLOSING"})
    /\ Sock(Svc(Cur, p), q).waiter = k
    /\ (SocketOpen(p, q) \/ SocketFail(p, q))

\* the timeout of the wait loop of call k runs
PollRuns(k) == \E d \in PollDelays : PollTick(k, d)

\* the HTTP request of call k ends
HttpEnds(k) == (\E sid \in HttpSids : HttpReply(k, sid)) \/ HttpFail(k)

\* The event loop runs every continuation, every timeout and every event of a
\* connection attempt or a request that ends. Between tasks a settled call may stand
\* in the way for a moment, so the events are strongly fair.
FairSpec ==
  /\ Spec
  /\ \A k \in Calls : /\ WF_vars(Return(k))
                      /\ SF_vars(ConnectSettles(k))
                      /\ SF_vars(PollRuns(k))
                      /\ SF_vars(HttpEnds(k))

\* ------------------------------------------- createNewSession calls that overlap
\* Callers that only create sessions, on a network that drops nothing: every service
\* stays connected, so the services the calls replace add up. Each service is
\* followed back to the call that constructed it.
Mark(S, k) == [S EXCEPT !.webSocketService.creator = k]

CreateOnly(k, u) ==
  /\ NoneSettled
  /\ FreeSlot(k)
  /\ Len(orphans) + (IF Alive(webSocketService) THEN 1 ELSE 0) <= MaxLoad
  /\ Commit(Mark(CreateNewSession(Enter(Cur, k, "create", u), k, u), k))
  /\ cleanups' = 0
  /\ UNCHANGED ui

CreateNext ==
  \/ \E k \in Calls, u \in Users : CreateOnly(k, u)
  \/ \E k \in Calls : Return(k)
  \/ \E p \in Slots, q \in Slots : SocketOpen(p, q)
  \/ \E p \in Slots, q \in Slots, f \in Frames : SocketMessage(p, q, f)
  \/ \E k \in Calls, d \in PollDelays : PollTick(k, d)
  \/ \E k \in Calls, sid \in HttpSids : HttpReply(k, sid)
  \/ \E k \in Calls : HttpFail(k)

CreateSpec == Init /\ [][CreateNext]_vars

\* ------------------------------------------------------------ the chat page
\* ChatbotInterface and its Sidebar, the caller of the ChatAPI in the application, on
\* a network that drops nothing. A handler that awaits a ChatAPI call holds the call's
\* slot until it has resumed.
MaxConversations == 2

\* the statuses of a reply to DELETE that axios resolves with (it throws on the others)
DeleteStatuses == {200, 204}

ConversationIds(u) == {u.conversations[i].id : i \in DOMAIN u.conversations}

\* conversations.find((c) => c.id === id)?.session_id
SessionOf(u, id) ==
  IF id \in ConversationIds(u)
  THEN u.conversations[CHOOSE i \in DOMAIN u.conversations : u.conversations[i].id = id].session_id
  ELSE ""

\* setConversations((prev) => [newConversation, ...prev]); setActiveConversation(id)
AddConversation(u, sid) ==
  [u EXCEPT !.ids = @ + 1,
            !.conversations = <<[id |-> u.ids + 1, session_id |-> sid]>> \o @,
            !.activeConversation = u.ids + 1]

\* handleDeleteConversation(conversationId)
handleDeleteConversation(u, id) ==
  LET keep(c) == c.id # id
  IN [u EXCEPT !.conversations = SelectSeq(@, keep),
               !.activeConversation = IF @ = id THEN 0 ELSE @]

\* room for the service a call would drop, and for one more conversation
UiRoom == Len(orphans) + (IF Alive(webSocketService) THEN 1 ELSE 0) <= MaxLoad
CanAdd ==
  ui.ids + Cardinality({k \in Calls : ui.awaits[k].at \in {"newChat", "session"}})
    < MaxConversations

\* the effect that runs on mount: chatAPI.initializeWebSocket(user.user_id)
Mount(k, u) ==
  /\ ~ui.mounted
  /\ NoneSettled
  /\ FreeSlot(k)
  /\ Commit(InitializeWebSocket(Enter(Cur, k, "init", u), k, u))
  /\ cleanups' = 0
  /\ ui' = [ui EXCEPT !.mounted = TRUE, !.awaits[k].at = "mount"]

\* the promise of the mount effect settled: a failure is logged
MountDone(k) ==
  /\ Settled(k)
  /\ ui.awaits[k].at = "mount"
  /\ Commit(Forget(Cur, k))
  /\ cleanups' = 0
  /\ ui' = [ui EXCEPT !.awaits[k] = NoAwait]

\* handleTextareaChange: the user types into the empty box
Type ==
  /\ ui.mounted
  /\ NoneSettled
  /\ ui.inputMessage = ""
  /\ ui' = [ui EXCEPT !.inputMessage = "hi"]
  /\ cleanups' = 0
  /\ UNCHANGED <<webSocketService, orphans, calls>>

\* createNewConversation(), up to its await
createNewConversation(k, u) ==
  /\ ui.mounted
  /\ NoneSettled
  /\ FreeSlot(k)
  /\ UiRoom
  /\ CanAdd
  /\ Commit(CreateNewSession(Enter(Cur, k, "create", u), k, u))
  /\ cleanups' = 0
  /\ ui' = [ui EXCEPT !.awaits[k].at = "newChat"]

\* createNewConversation() after its await
NewChatDone(k) ==
  /\ Settled(k)
  /\ ui.awaits[k].at = "newChat"
  /\ Commit(Forget(Cur, k))
  /\ cleanups' = 0
  /\ ui' = IF calls[k].pc = "resolved" /\ calls[k].ret # ""
           THEN AddConversation([ui EXCEPT !.awaits[k] = NoAwait], calls[k].ret)
           ELSE [ui EXCEPT !.awaits[k] = NoAwait]

\* handleSendMessage(), up to its first await: of createNewSession when no conversation
\* is active, of sendMessage otherwise
handleSendMessage(k, u) ==
  /\ ui.mounted
  /\ NoneSettled
  /\ FreeSlot(k)
  /\ ui.inputMessage # ""
  /\ IF ui.activeConversation = 0
     THEN /\ UiRoom
          /\ CanAdd
          /\ Commit(CreateNewSession(Enter(Cur, k, "create", u), k, u))
          /\ ui' = [ui EXCEPT !.awaits[k].at = "session"]
     ELSE /\ Commit(SendMessage(Enter(Cur, k, "send", u), k, u))
          /\ ui' = [ui EXCEPT
               !.inputMessage = "", !.isLoading = TRUE,
               !.awaits[k] =
                 [at |-> "reply", conversationId |-> ui.activeConversation,
                  sessionId |-> SessionOf(ui, ui.activeConversation)]]
  /\ cleanups' = 0

\* the send button, enabled while there is text and isLoading is false
ClickSend(k, u) ==
  /\ ~ui.isLoading
  /\ handleSendMessage(k, u)

\* handleKeyPress: Enter without Shift in the text box
handleKeyPress(k, u) == handleSendMessage(k, u)

\* handleSendMessage() after await chatAPI.createNewSession: it throws, or it adds the
\* conversation and goes on to await chatAPI.sendMessage
SessionDone(k) ==
  /\ Settled(k)
  /\ ui.awaits[k].at = "session"
  /\ IF calls[k].pc = "resolved" /\ calls[k].ret # ""
     THEN LET U == AddConversation(ui, calls[k].ret)
          IN /\ Commit(SendMessage(Enter(Forget(Cur, k), k, "send", calls[k].user),
                                   k, calls[k].user))
             /\ ui' = [U EXCEPT !.inputMessage = "", !.isLoading = TRUE,
                                !.awaits[k] = [at |-> "reply",
                                               conversationId |-> U.activeConversation,
                                               sessionId |-> calls[k].ret]]
     ELSE /\ Commit(Forget(Cur, k))
          /\ ui' = [ui EXCEPT !.awaits[k] = NoAwait]
  /\ cleanups' = 0

\* handleSendMessage() after await chatAPI.sendMessage: the reply or the error message
\* is added to the conversation, with the session id on a reply; finally isLoading
\* is false
ReplyDone(k) ==
  LET a == ui.awaits[k]
      info == GetSessionInfo(Cur)
      sessionId == IF a.sessionId # "" THEN a.sessionId
                   ELSE IF info = "null" THEN "" ELSE info
      set(c) == IF c.id = a.conversationId THEN [c EXCEPT !.session_id = sessionId] ELSE c
  IN /\ Settled(k)
     /\ a.at = "reply"
     /\ Commit(Forget(Cur, k))
     /\ cleanups' = 0
     /\ ui' = [ui EXCEPT !.awaits[k] = NoAwait, !.isLoading = FALSE,
                         !.conversations = IF calls[k].pc = "resolved"
                                           THEN [i \in DOMAIN @ |-> set(@[i])] ELSE @]

\* Sidebar.handleDelete(conversation) with the confirm dialog accepted, up to its await
handleDelete(id) ==
  /\ NoneSettled
  /\ id \in ConversationIds(ui)
  /\ id \notin ui.deleting
  /\ ui' = IF SessionOf(ui, id) = ""
           THEN [handleDeleteConversation(ui, id) EXCEPT !.ended = @ \cup {id}]
           ELSE [ui EXCEPT !.deleting = @ \cup {id}]
  /\ cleanups' = 0
  /\ UNCHANGED <<webSocketService, orphans, calls>>

\* axios.delete resolved with a reply of this status
DeleteReply(id, status) ==
  /\ NoneSettled
  /\ id \in ui.deleting
  /\ ui' = [(IF status = 200 THEN handleDeleteConversation(ui, id) ELSE ui)
              EXCEPT !.deleting = @ \ {id}, !.ended = @ \cup {id}]
  /\ cleanups' = 0
  /\ UNCHANGED <<webSocketService, orphans, calls>>

\* axios.delete threw
DeleteThrows(id) ==
  /\ NoneSettled
  /\ id \in ui.deleting
  /\ ui' = [handleDeleteConversation(ui, id)
              EXCEPT !.deleting = @ \ {id}, !.ended = @ \cup {id}]
  /\ cleanups' = 0
  /\ UNCHANGED <<webSocketService, orphans, calls>>

UiNext ==
  \/ \E k \in Calls, u \in Users : Mount(k, u)
  \/ \E k \in Calls : MountDone(k)
  \/ Type
  \/ \E k \in Calls, u \in Users : createNewConversation(k, u)
  \/ \E k \in Calls : NewChatDone(k)
  \/ \E k \in Calls, u \in Users : ClickSend(k, u)
  \/ \E k \in Calls, u \in Users : handleKeyPress(k, u)
  \/ \E k \in Calls : SessionDone(k)
  \/ \E k \in Calls : ReplyDone(k)
  \/ \E id \in 1 .. MaxConversations : handleDelete(id)
  \/ \E id \in 1 .. MaxConversations, status \in DeleteStatuses : DeleteReply(id, status)
  \/ \E id \in 1 .. MaxConversations : DeleteThrows(id)
  \/ \E p \in Slots, q \in Slots : SocketOpen(p, q)
  \/ \E p \in Slots, q \in Slots, f \in Frames : SocketMessage(p, q, f)
  \/ \E k \in Calls, d \in PollDelays : PollTick(k, d)
  \/ \E k \in Calls, sid \in HttpSids : HttpReply(k, sid)
  \/ \E k \in Calls : HttpFail(k)

UiSpec == Init /\ [][UiNext]_vars

\* ------------------------------------------- a WebSocketService used directly
\* The class is exported: a caller that holds a service calls connect(), sendMessage()
\* and disconnect() in any order. The service is the one in webSocketService.
ServiceInit ==
  /\ webSocketService \in {Construct(u) : u \in Users}
  /\ orphans = <<>>
  /\ calls = [k \in Calls |-> NoCall]
  /\ cleanups = 0
  /\ ui = NoUi

\* connect(); every socket not yet closed and every timeout is one more chain of
\* reconnects, and a call that would add one needs room for it
DirectConnect(k) ==
  /\ NoneSettled
  /\ FreeSlot(k)
  /\ \/ webSocketService.ws.readyState = "OPEN"
     \/ Cardinality(LiveSockets(webSocketService)) + Len(webSocketService.timers) < MaxLoad
  /\ Commit(Connect(Enter(Cur, k, "connect", webSocketService.user_id), 0, k))
  /\ cleanups' = 0
  /\ UNCHANGED ui

\* sendMessage(message)
DirectSendMessage(k) ==
  /\ NoneSettled
  /\ FreeSlot(k)
  /\ Commit(ServiceSendMessage(Enter(Cur, k, "send", webSocketService.user_id), k))
  /\ cleanups' = 0
  /\ UNCHANGED ui

\* disconnect()
DirectDisconnect ==
  /\ NoneSettled
  /\ Commit(Put(Cur, 0, disconnect(webSocketService)))
  /\ cleanups' = 0
  /\ UNCHANGED ui

ServiceNext ==
  \/ \E k \in Calls : DirectConnect(k)
  \/ \E k \in Calls : DirectSendMessage(k)
  \/ DirectDisconnect
  \/ \E k \in Calls : Return(k)
  \/ \E q \in Slots : SocketOpen(0, q)
  \/ \E q \in Slots, f \in Frames : SocketMessage(0, q, f)
  \/ \E q \in Slots : SocketFail(0, q)
  \/ \E q \in Slots : SocketClose(0, q)
  \/ \E i \in Slots : TimerFire(0, i)

ServiceSpec == ServiceInit /\ [][ServiceNext]_vars

AllServices == {Svc(Cur, p) : p \in Places(Cur)}

\* live sockets in the process, whichever service they call into
Transports(S) ==
  {<<p, q>> \in (0 .. Len(S.orphans)) \X Slots :
     /\ Svc(S, p).live
     /\ q \in SockIds(Svc(S, p))
     /\ Sock(Svc(S, p), q).readyState \in {"CONNECTING", "OPEN"}}

\* ------------------------------------------------------------------ claims

\* C1: every createSession call that resolves returns a non-empty identifier, and
\* getSessionInfo() then reports that same identifier, whichever path produced it.
C1_ReturnedIdIsReported ==
  \A k \in Calls :
    calls[k].op = "create" /\ calls[k].pc = "resolved"
      => calls[k].ret # "" /\ GetSessionInfo(Cur) = calls[k].ret

\* C2: a request pending on a connection that closes is rejected: no request stays
\* pending once the socket its query was written to has closed.
C2_PendingRejectedOnClose ==
  \A k \in Calls : calls[k].pc = "awaitReply" => ~calls[k].lost

\* C3: after disconnect() (cleanup() on the ChatAPI) no reconnect is scheduled and no
\* new transport is opened for that service.
C3_NoReconnectAfterDisconnect ==
  \A v \in AllServices :
    v.disconnected =>
      /\ v.timers = <<>>
      /\ \A q \in SockIds(v) : Sock(v, q).readyState \notin {"CONNECTING", "OPEN"}

\* C4: the ChatAPI closes the service it replaces: a service it replaced (one it no
\* longer refers to, and has not disconnected) has no transport Connecting or Open
\* and no reconnect timer, and its own service has no transport besides its ws.
C4_ReplacedConnectionClosed ==
  /\ \A i \in DOMAIN orphans :
       ~orphans[i].disconnected =>
         /\ orphans[i].timers = <<>>
         /\ \A q \in SockIds(orphans[i]) :
              Sock(orphans[i], q).readyState \notin {"CONNECTING", "OPEN"}
  /\ \A j \in DOMAIN webSocketService.detached :
       webSocketService.detached[j].readyState \notin {"CONNECTING", "OPEN"}

\* C5: initializeConnection called while the ChatAPI's connection is Open opens no
\* second transport, whether or not a session identifier has arrived.
C5_SecondInitializeOpensNoTransport ==
  [][(/\ webSocketService.ws.readyState = "OPEN"
      /\ \E k \in Calls : calls[k].op = "none" /\ calls'[k].op = "init")
       => Cardinality(Transports(Cur)') <= Cardinality(Transports(Cur))]_vars

\* C6: when the wait loop ends without a streamed session id and the HTTP
\* create-session call returns a non-empty session_id, createSession resolves to
\* exactly that identifier.
C6_HttpFallbackId ==
  \A k \in Calls :
    /\ calls[k].pc = "http" => calls[k].op = "create" /\ calls[k].elapsed >= maxWaitTime
    /\ calls[k].http \in HttpSids \ {""} =>
         calls[k].op = "create" /\ calls[k].pc = "resolved" /\ calls[k].ret = calls[k].http

C6_Witness ==
  \E k \in Calls : calls[k].http = "sid-123" /\ calls[k].pc = "resolved"

\* the calls whose reply handler is registered with the service at place p
Awaiting(p) ==
  {k \in Calls : /\ calls[k].pc = "awaitReply"
                 /\ \E i \in DOMAIN Svc(Cur, p).messageHandlers :
                      Svc(Cur, p).messageHandlers[i] = k}

C8_BackoffDelay ==
  \A v \in AllServices :
    /\ v.reconnectAttempts = v.retries
    /\ \A i \in DOMAIN v.timers :
         /\ v.retries \in 0 .. 4
         /\ v.timers[i] = <<1000, 2000, 4000, 8000, 16000>>[v.retries + 1]

C8_Witness ==
  \E v \in AllServices : v.timers = <<16000>> /\ v.retries = 4

\* a service whose five reconnect attempts in a row all failed
Exhausted(v) == v.live /\ v.retries = 5 /\ LiveSockets(v) = {}

\* C9: no sixth attempt follows five failed ones: an exhausted service has no timer,
\* and it stays as it is, closed, until the ChatAPI drops or replaces it.
C9_CeilingStops ==
  [][/\ \A v \in AllServices :
          v.retries <= 5 /\ (Exhausted(v) => v.timers = <<>>)
     /\ Exhausted(webSocketService) =>
          \/ webSocketService' = webSocketService
          \/ ~webSocketService'.live
          \/ webSocketService'.retries = 0 /\ webSocketService'.reconnectAttempts = 0
               /\ webSocketService'.ws.readyState = "CONNECTING"]_vars

C9_Witness == Exhausted(webSocketService) /\ webSocketService.ws.readyState = "CLOSED"

\* C10: cleanup() can always be called, also twice in a row and with no service, and
\* after it getSessionInfo().sessionId is null.
C10_CleanupIdempotent ==
  /\ NoneSettled => ENABLED CallCleanup
  /\ cleanups > 0 => ~webSocketService.live /\ GetSessionInfo(Cur) = "null"

C10_Witness == cleanups = 2 /\ GetSessionInfo(Cur) = "null"

\* a sendMessage call begins in slot k
Sends(k) == calls[k].op = "none" /\ calls'[k].op = "send"

C12_OneRequestInFlight ==
  [][/\ \A k \in Calls :
          (Sends(k) /\ webSocketService.live /\ webSocketService.messageHandlers # <<>>)
            => calls'[k].pc = "rejected" /\ calls'[k].ret = "RequestInFlight"
     /\ \A v \in AllServices : Len(v.messageHandlers) <= 1]_vars

\* C13: a frame with a response or an error settles the earliest registered request
\* and only that one: every other request of the service stays as it was.
C13_FrameFulfilsEarliestOnly ==
  [][\A p \in Slots, q \in Slots, f \in Frames :
       (SocketMessage(p, q, f) /\ (f.response # "" \/ f.error # "")
          /\ Svc(Cur, p).messageHandlers # <<>>)
         => LET hs == Svc(Cur, p).messageHandlers
            IN /\ calls'[Head(hs)].pc \in {"resolved", "rejected"}
               /\ \A i \in 2 .. Len(hs) : calls'[hs[i]] = calls[hs[i]]]_vars

\* C14: the session id of a service is set once: a service that has one keeps it
\* (the ChatAPI's service after the step either has the same id or is another
\* service, which has none yet, or there is none).
C14_SessionIdSetOnce ==
  [][getSessionId(webSocketService) # "null"
       => GetSessionInfo(Cur)' \in {getSessionId(webSocketService), "null"}]_vars

C16_InitializeEnsuresOpen ==
  [][\A k \in Calls :
       /\ (calls'[k].op = "init" /\ calls'[k].pc = "resolved" /\ calls[k].pc # "resolved")
            => /\ webSocketService'.live
               /\ webSocketService'.ws.readyState = "OPEN"
               /\ webSocketService'.user_id = calls'[k].user
       /\ (calls[k].op = "none" /\ calls'[k].op = "init")
            => IF /\ webSocketService.ws.readyState = "OPEN"
                  /\ getSessionId(webSocketService) # "null"
               THEN webSocketService' = webSocketService
               ELSE /\ calls'[k].pc = "connecting"
                    /\ webSocketService'.ws.readyState = "CONNECTING"
                    /\ webSocketService'.ws.waiter = k]_vars

\* C17: connect() on a service whose socket is OPEN resolves at once and changes
\* nothing: no socket is created, and the reconnect counter, the session id and the
\* registered handlers are as before.
C17_ConnectWhenOpen ==
  [][\A k \in Calls :
       (calls[k].op = "none" /\ calls'[k].op = "connect"
          /\ webSocketService.ws.readyState = "OPEN")
         => /\ calls'[k].pc = "resolved"
            /\ webSocketService' = webSocketService
            /\ orphans' = orphans]_vars

C17_Witness ==
  /\ webSocketService.ws.readyState = "OPEN" /\ webSocketService.ws.sent # {}
  /\ \E k \in Calls : calls[k].op = "connect" /\ calls[k].pc = "resolved"

C19_ConnectSettles ==
  /\ \A k \in Calls : (calls[k].pc = "connecting") ~> (calls[k].pc # "connecting")
  /\ [][\A p \in Slots, q \in Slots :
          (/\ At(p, q, {"CONNECTING", "CLOSING"})
           /\ Sock(Svc(Cur, p), q).promise = "pending"
           /\ SocketFail(p, q))
            => LET v == Svc(Cur, p)
                   k == Sock(v, q).waiter
               IN /\ k # 0 => calls'[k].pc = "rejected" /\ calls'[k].ret = "TransportError"
                  /\ IF v.reconnectAttempts < 5
                     THEN Svc(Cur, p)'.timers =
                            Append(v.timers, 1000 * 2 ^ v.reconnectAttempts)
                     ELSE p = 0 => webSocketService'.timers = v.timers]_vars

C19_Witness ==
  /\ \E k \in Calls : calls[k].pc = "rejected" /\ calls[k].ret = "TransportError"
  /\ webSocketService.ws.readyState = "CLOSED" /\ webSocketService.timers = <<1000>>

\* C20: when a socket opens, first connect or reconnect, the reconnect counter of
\* its service is 0 afterwards; when an open socket then drops, the reconnect is
\* scheduled after 1000 ms, with the counter still 0.
C20_OpenResetsCounter ==
  [][\A p \in Slots, q \in Slots :
       /\ (At(p, q, {"CONNECTING"}) /\ SocketOpen(p, q))
            => Svc(Cur, p)'.reconnectAttempts = 0
       /\ (At(p, q, {"OPEN"}) /\ (SocketFail(p, q) \/ SocketClose(p, q)))
            => /\ Svc(Cur, p)'.timers = <<1000>>
               /\ Svc(Cur, p)'.reconnectAttempts = 0]_vars

\* a socket of the ChatAPI's service is open again after an earlier one, with a query
\* written to it, had closed
C20_Witness ==
  /\ webSocketService.ws.readyState = "OPEN" /\ webSocketService.reconnectAttempts = 0
  /\ \E i \in DOMAIN webSocketService.messageHandlers :
       calls[webSocketService.messageHandlers[i]].lost

\* C21: the HTTP call is made only when no session id arrived in time on the
\* service the call constructed: a createSession call on whose service a session id
\* arrived during the wait makes no HTTP call and returns that id.
C21_HttpOnlyAfterSilence ==
  \A k \in Calls :
    (calls[k].op = "create" /\ calls[k].got # "none")
      => /\ calls[k].pc # "http" /\ calls[k].http = "none"
         /\ Settled(k) => calls[k].pc = "resolved" /\ calls[k].ret = calls[k].got

\* C22: a frame with a session_id that arrives on the ChatAPI's service sets the
\* session id of the service, whatever else it carries: with a response as well, the
\* requests awaiting a reply are resolved too; with neither response nor error, they
\* stay as they are, registered.
C22_SessionIdWithOrWithoutReply ==
  [][\A q \in Slots, f \in Frames :
       (SocketMessage(0, q, f) /\ f.session_id # "")
         => /\ getSessionId(webSocketService') = f.session_id
            /\ f.response # "" =>
                 \A k \in Awaiting(0) : /\ calls'[k].pc = "resolved"
                                        /\ calls'[k].ret = f.response
            /\ (f.response = "" /\ f.error = "") =>
                 /\ calls' = calls
                 /\ webSocketService'.messageHandlers = webSocketService.messageHandlers]_vars

C22_Witness ==
  /\ GetSessionInfo(Cur) = "s1"
  /\ \E k \in Calls : calls[k].pc = "resolved" /\ calls[k].ret = "hi" /\ calls[k].sid = "s1"

\* C23: createSession always puts a service it has just constructed, with no session
\* id yet, in place of the ChatAPI's; the id it returns from the wait loop is one
\* that arrived on that service.
C23_CreateReplacesAndReturnsOwnId ==
  [][\A k \in Calls :
       /\ (calls[k].op = "none" /\ calls'[k].op = "create")
            => /\ webSocketService'.creator = k
               /\ getSessionId(webSocketService') = "null"
               /\ webSocketService'.ws.readyState = "CONNECTING"
       /\ (calls'[k].op = "create" /\ calls'[k].pc = "resolved" /\ calls'[k].http = "none")
            => calls'[k].ret = calls'[k].got]_vars

\* C28: of two createSession calls that overlap, each returns an id that arrived on
\* the service it constructed itself, or the id of its own HTTP reply.
C28_OverlappingCreatesKeepApart ==
  \A k \in Calls :
    (calls[k].op = "create" /\ calls[k].pc = "resolved")
      => IF calls[k].http = "none" THEN calls[k].ret = calls[k].got
                                   ELSE calls[k].ret = calls[k].http

Fresh(v) ==
  /\ v.live /\ v.ws.readyState = "CONNECTING" /\ v.detached = <<>>
  /\ v.reconnectAttempts = 0 /\ v.timers = <<>> /\ v.messageHandlers = <<>>
  /\ getSessionId(v) = "null" /\ ~v.disconnected

\* the step is the reconnect timeout of service v, which v2 is afterwards
Reconnects(v, v2) ==
  /\ v2.reconnectAttempts = v.reconnectAttempts + 1
  /\ Len(v2.timers) = Len(v.timers) - 1

\* C25: a service whose socket is CLOSED gets a CONNECTING socket only in its
\* reconnect timeout; initializeConnection and sendMessage leave a service with a
\* CLOSED socket as it is (the ChatAPI may drop it for one it constructs).
C25_ClosedToConnectingByPolicyOnly ==
  [][/\ (/\ webSocketService.live /\ webSocketService.ws.readyState = "CLOSED"
         /\ webSocketService'.ws.readyState = "CONNECTING")
          => Fresh(webSocketService') \/ Reconnects(webSocketService, webSocketService')
     /\ Len(orphans') = Len(orphans) =>
          \A i \in DOMAIN orphans :
            (orphans[i].ws.readyState = "CLOSED" /\ orphans'[i].ws.readyState = "CONNECTING")
              => Reconnects(orphans[i], orphans'[i])
     /\ \A k \in Calls :
          (/\ calls[k].op = "none" /\ calls'[k].op \in {"init", "send"}
           /\ webSocketService.live /\ webSocketService.ws.readyState = "CLOSED")
            => \/ webSocketService' = webSocketService
               \/ Fresh(webSocketService')]_vars

C25_Witness ==
  /\ webSocketService.ws.readyState = "CLOSED" /\ webSocketService.timers # <<>>
  /\ \E k \in Calls : /\ calls[k].op = "send" /\ calls[k].pc = "rejected"
                      /\ calls[k].ret = "WebSocket not connected"

\* C27: in every reachable state the reconnect counter of every service is within
\* 0..5 and every service has at most one reconnect timeout pending.
C27_CounterAndTimerBounded ==
  \A v \in AllServices :
    /\ v.reconnectAttempts \in 0 .. maxReconnectAttempts
    /\ Len(v.timers) <= 1

\* a dropped service at its last attempt, and the ChatAPI's service waiting to reconnect
C27_Witness ==
  /\ \E i \in DOMAIN orphans : orphans[i].reconnectAttempts = maxReconnectAttempts
  /\ Len(webSocketService.timers) = 1 /\ webSocketService.reconnectAttempts > 0

\* C29: a frame settles only sends whose query was written to the socket that
\* delivered it: no send settles after the socket it was written to has closed.
C29_ReplyOnSameTransport ==
  \A k \in Calls : (calls[k].op = "send" /\ Settled(k)) => ~calls[k].lost

\* C26: a conversation for which a confirmed delete has run to its end is no longer
\* in the list, whatever the DELETE request came to.
C26_ConfirmedDeleteRemoves ==
  \A id \in ui.ended : id \notin ConversationIds(ui)

\* C30: while isLoading is true no handleSendMessage starts: no handler comes to
\* await createNewSession or sendMessage on behalf of a send.
C30_NoSendWhileLoading ==
  [][ui.isLoading =>
       \A k \in Calls : ui.awaits[k].at = "none" =>
                          ui'.awaits[k].at \notin {"session", "reply"}]_vars

\* the sockets of service v that are CONNECTING or OPEN
Connected(v) == {q \in SockIds(v) : Sock(v, q).readyState \in {"CONNECTING", "OPEN"}}

DroppedEvent(p) ==
  \/ \E q \in Slots : SocketOpen(p, q) \/ SocketFail(p, q) \/ SocketClose(p, q)
  \/ \E q \in Slots, f \in Frames : SocketMessage(p, q, f)
  \/ \E i \in Slots : TimerFire(p, i)

\* the sends that await a reply on the ChatAPI's service
OnCurrent ==
  {k \in Calls : /\ calls[k].op = "send" /\ calls[k].pc = "awaitReply"
                 /\ \E i \in DOMAIN webSocketService.messageHandlers :
                      webSocketService.messageHandlers[i] = k}

\* C32: an event of a service the ChatAPI dropped (by cleanup() or by replacing it)
\* leaves getSessionInfo().sessionId as it was and settles no send that awaits its
\* reply on the ChatAPI's service.
C32_DroppedServiceIsolated ==
  [][\A p \in Slots \ {0} :
       DroppedEvent(p) =>
         /\ GetSessionInfo(Cur)' = GetSessionInfo(Cur)
         /\ \A k \in OnCurrent : calls'[k] = calls[k]]_vars

\* a service that cleanup() released has reconnected and is open again, while the
\* ChatAPI's service has a session id and a send awaiting its reply
C32_Witness ==
  /\ \E i \in DOMAIN orphans :
       orphans[i].disconnected /\ orphans[i].ws.readyState = "OPEN"
  /\ GetSessionInfo(Cur) # "null"
  /\ OnCurrent # {}

TypeOK ==
  /\ Len(orphans) <= MaxLoad
  /\ \A v \in AllServices :
       /\ v.reconnectAttempts \in 0 .. maxReconnectAttempts
       /\ Len(v.timers) <= 1
       /\ Len(v.detached) <= 1
       /\ Cardinality(LiveSockets(v)) + Len(v.timers) <= 1
  /\ \A k \in Calls : calls[k].elapsed \in 0 .. maxWaitTime

====
